---- MODULE Spec2Model ----
(***************************************************************************)
(* A model of the two scripts of the repository:                           *)
(*   first-board-low-open/strategy_fb_low_open.py  (daily trading jobs)    *)
(*   PB  PE.../pe_measure.py                       (valuation charts)      *)
(*                                                                         *)
(* Conventions.                                                            *)
(*  - Prices are integers (cents); a percentage comparison a < x/y*100 is  *)
(*    written cross-multiplied, a*y < x*100, for y > 0.  The arithmetic is *)
(*    exact, where the scripts use binary floating point.                  *)
(*  - Dates are day numbers; day d is a trading day iff it is a weekday    *)
(*    (d % 7 in 1..5, day 1 being a Monday).                               *)
(*  - In pe_measure.py a float is NaN, an infinity or an exact fraction;   *)
(*    a Series is a function from its dates.  Smoothing, colours and the   *)
(*    rest of the drawing are left out.                                    *)
(*  - The platform (market data, calendar, portfolio, order API) is        *)
(*    outside the repository: every read of it is an input drawn from a    *)
(*    small set; the same datum read twice gives the same value.           *)
(***************************************************************************)
EXTENDS Integers, Sequences, FiniteSets, TLC

VARIABLES
    g,        \* process-wide parameters: attribute name -> value (hundredths of a percent)
    jobs,     \* the daily jobs registered by run_daily, in registration order
    today,    \* the current trading day
    window,   \* the platform's answer to get_trade_days(end_date=today, count=100)
    dayno,    \* number of trading days of the session begun so far
    ran,      \* the jobs run so far today, each [func, time]
    phase,    \* "boot" before initialize, "idle" between jobs, "ran" just after one
    job,      \* the invocation just made: [func, time, dates], time = <<h, m, s>>
    mkt,      \* the market data the invocation read
    pf,       \* the portfolio and quotes the invocation read
    pools,    \* buy's locals: stock_list_with_ST, stock_list_not_ST, stock_list
    orders,   \* the order_target_value calls of the invocation, in order
    warned,   \* the securities log.warning was called for in the invocation
    pc,         \* pe_measure: where plot_pe_pb_with_price_batch stands
    args,       \* its arguments
    tdays,      \* trade_days, the answer of get_trade_days
    valuation,  \* how the valuation table was fetched, and the table df_all
    body,       \* the locals of the latest loop iteration
    panels,     \* what each subplot so far shows
    files,      \* the CSV files written
    error,      \* the exception that ended the run, "-" if none
    prep_in,    \* _prep_single_stock called on its own: <<arguments>>
    prep_out,   \* and <<result>>
    call        \* a helper of the strategy called on its own: its arguments and locals

svars == <<g, jobs, today, window, dayno, ran, phase, job, mkt, pf, pools, orders, warned>>

pvars == <<pc, args, tdays, valuation, body, panels, files, error, prep_in, prep_out>>

uvars == <<call>>

-----------------------------------------------------------------------------
(* Bounds of the model *)

NumTickers == 2     \* securities the platform knows
MaxDays == 2        \* trading days of a session
FirstDay == 5
NumStocks == 2      \* tickers of a batch of charts
PeEnd == 29         \* last day of the date range of a batch
PrepEnd == 32       \* last day of the date range of a lone _prep_single_stock call
MaxNoLimitDate == 3 \* largest no_limit_date of a lone get_no_limit_up_stocks call
MaxCalendar == 4    \* most trading days the platform's calendar holds, in a lone get_previous_trade_day call
MaxLookback == 4    \* largest n of a lone get_previous_trade_day call       \* the session starts on the first trading day >= FirstDay

Tickers == 1..NumTickers

(* Values the inputs are drawn from (cents) *)
Closes == {1050, 1100}
HighLimits == {1100}
PrevCloses == {1000, 1050}
BarOpens == {1000, 1100}
TodayOpens == {388, 401, 405}
PreCloses == {400}
MaxHighs == {1300}
MinLows == {1000, 1100}
Cashes == {-500, 0, 60000}

-----------------------------------------------------------------------------
(* Helpers *)

Range(s) == { s[i] : i \in 1..Len(s) }

EmptyFn == [x \in {} |-> 0]

NoDup(s) == \A i, j \in 1..Len(s) : s[i] = s[j] => i = j

Contains(s, x) == \E i \in 1..Len(s) : s[i] = x

\* the ascending sequence of the members of a set of integers
RECURSIVE SortedSeq(_)
SortedSeq(S) ==
    IF S = {} THEN <<>>
    ELSE LET x == CHOOSE y \in S : \A z \in S : y <= z
         IN <<x>> \o SortedSeq(S \ {x})

-----------------------------------------------------------------------------
(* The platform's trading calendar *)

IsTradeDay(d) == (d % 7) \in 1..5

\* get_trade_days(start_date=start, end_date=end): the trading days of
\* start..end, oldest first
RECURSIVE GetTradeDaysRange(_, _)
GetTradeDaysRange(start, end) ==
    IF start > end THEN <<>>
    ELSE IF start = end THEN (IF IsTradeDay(start) THEN <<start>> ELSE <<>>)
    ELSE LET mid == start + ((end - start) \div 2)
         IN GetTradeDaysRange(start, mid) \o GetTradeDaysRange(mid + 1, end)

\* get_trade_days(end_date=end, count=count): the last count trading days
\* on or before end, oldest first (any 2 * count + 7 days hold that many)
GetTradeDaysCount(end, count) ==
    LET all == GetTradeDaysRange(end - (2 * count + 7), end)
    IN SubSeq(all, Len(all) - count + 1, Len(all))

NextTradeDay(d) == CHOOSE e \in d..(d + 3) : IsTradeDay(e) /\ \A f \in d..(e - 1) : ~IsTradeDay(f)

TradeDayCount == 100

\* get_previous_trade_day(context, n), given the calendar window it fetched
GetPreviousTradeDay(trade_days, n) ==
    IF n > Len(trade_days) THEN [tag |-> "None", day |-> 0]
    ELSE IF n + 1 > Len(trade_days) THEN [tag |-> "IndexError", day |-> 0]
    ELSE [tag |-> "day", day |-> trade_days[Len(trade_days) - n]]

\* the three dates a job derives from context.current_dt
PrevDay(n) == GetPreviousTradeDay(window, n).day

-----------------------------------------------------------------------------
(* Market data, as the platform returns it *)

\* get_price(..., fields=[close, high, high_limit], fill_paused=False) for one
\* security and day: a paused day shows NaN and is dropped by dropna()
LU == {[paused |-> TRUE, close |-> 0, high_limit |-> 0]}
      \cup [paused : {FALSE}, close : Closes, high_limit : HighLimits]

\* get_price(stock, end_date, count=2, fields=[open, close]): the call raises,
\* or returns 1 or 2 rows; close_prev is the close of the row before the last
P2 == {[rows |-> "raise", close_prev |-> 0, open |-> 0],
       [rows |-> "one", close_prev |-> 0, open |-> 0]}
      \cup [rows : {"two"}, close_prev : PrevCloses, open : BarOpens]

\* get_price(code, start_date=date, end_date=date, fields=[open, pre_close])
TB == {[empty |-> TRUE, open |-> 0, pre_close |-> 0]}
      \cup [empty : {FALSE}, open : TodayOpens, pre_close : PreCloses]

\* get_price(code, end_date, count=watch_days, fields=[high, low]): max and min
REL == {[empty |-> TRUE, max_high |-> 0, min_low |-> 0]}
       \cup [empty : {FALSE}, max_high : MaxHighs, min_low : MinLows]

NewStockDays == 60

EmptyMkt == [universe |-> <<>>, lu |-> EmptyFn, start_date |-> EmptyFn,
             p2 |-> EmptyFn, tb |-> EmptyFn, rel |-> EmptyFn]

\* the close of security s on day d (get_price with the default fill_paused)
CloseAt(m, s, d) == m.lu[<<s, d>>].close

IsLimitUp(m, s, d) ==
    LET b == m.lu[<<s, d>>] IN ~b.paused /\ b.close = b.high_limit

-----------------------------------------------------------------------------
(* Pool 1 filters *)

GetLimitUpStock(m, initial_list, date) ==
    SelectSeq(initial_list, LAMBDA s : IsLimitUp(m, s, date))


\* a listing age of exactly 60 days let through
FilterNewStockAtLeast(m, initial_list, date) ==
    SelectSeq(initial_list, LAMBDA s : date - m.start_date[s] >= NewStockDays)

FilterNewStock(m, initial_list, date) ==
    SelectSeq(initial_list, LAMBDA s : date - m.start_date[s] > NewStockDays)

\* 4 < return_percent_yesterday < 6 and close_today > 2.5
StRule(close_today, close_yesterday, open_today) ==
    /\ 4 * close_yesterday < (close_today - close_yesterday) * 100
    /\ (close_today - close_yesterday) * 100 < 6 * close_yesterday
    /\ close_today * 10 > 25 * 100

FilterStStock(m, stock_list, date) ==
    SelectSeq(stock_list, LAMBDA s :
        LET r == m.p2[<<s, date>>]
        IN  /\ r.rows = "two"
            /\ StRule(CloseAt(m, s, date), r.close_prev, r.open))

\* lo <= (open - pre_close) / pre_close * 100 <= hi, lo and hi in hundredths
InOpeningRange(lo, hi, open_price, pre_close_price) ==
    /\ lo * pre_close_price <= (open_price - pre_close_price) * 10000
    /\ (open_price - pre_close_price) * 10000 <= hi * pre_close_price

FilterStocksByOpeningRange(m, date, code_list) ==
    SelectSeq(code_list, LAMBDA code :
        LET stock_data == m.tb[<<code, date>>]
        IN  /\ ~stock_data.empty
            /\ InOpeningRange(g.open_min_1, g.open_max_1,
                              stock_data.open, stock_data.pre_close))

RECURSIVE NoLimitUpLoop(_, _, _)
NoLimitUpLoop(m, trading_days, no_limit_up_stocks) ==
    IF trading_days = <<>> \/ no_limit_up_stocks = <<>> THEN no_limit_up_stocks
    ELSE NoLimitUpLoop(m, Tail(trading_days),
            SelectSeq(no_limit_up_stocks,
                      LAMBDA code : ~IsLimitUp(m, code, Head(trading_days))))

\* the window taken one day longer
NoLimitWindowOneMore(date, no_limit_date) ==
    GetTradeDaysRange(date - no_limit_date, date)

\* the trading days of the window [date - (no_limit_date - 1) days, date]
NoLimitWindow(date, no_limit_date) ==
    GetTradeDaysRange(date - (no_limit_date - 1), date)

GetNoLimitUpStocks(m, date, no_limit_date, code_list) ==
    NoLimitUpLoop(m, NoLimitWindow(date, no_limit_date), code_list)

\* 0.0 <= (close - min_low) / (max_high - min_low) <= top / 10
RelRule(top, close_price, max_high, min_low) ==
    /\ max_high # min_low
    /\ 0 <= close_price - min_low
    /\ (close_price - min_low) * 10 <= top * (max_high - min_low)

GetRelativePositionStocks(m, date, watch_days, code_list) ==
    SelectSeq(code_list, LAMBDA code :
        LET data == m.rel[<<code, date, watch_days>>]
        IN  /\ ~data.empty
            /\ RelRule(3, CloseAt(m, code, date), data.max_high, data.min_low))

-----------------------------------------------------------------------------
(* Pool 2 filters *)

GetLimitUpStock2(m, initial_list, date) ==
    SelectSeq(initial_list, LAMBDA s : IsLimitUp(m, s, date))

FilterNewStock2(m, initial_list, date) ==
    SelectSeq(initial_list, LAMBDA s : date - m.start_date[s] > NewStockDays)

\* 9 < return_percent_yesterday < 22 and return_percent_today > 5
StRule2(close_today, close_yesterday, open_today) ==
    /\ 9 * close_yesterday < (close_today - close_yesterday) * 100
    /\ (close_today - close_yesterday) * 100 < 22 * close_yesterday
    /\ (close_today - open_today) * 100 > 5 * open_today

FilterStStock2(m, stock_list, date) ==
    SelectSeq(stock_list, LAMBDA s :
        LET r == m.p2[<<s, date>>]
        IN  /\ r.rows = "two"
            /\ StRule2(CloseAt(m, s, date), r.close_prev, r.open))

FilterStocksByOpeningRange2(m, date, code_list) ==
    SelectSeq(code_list, LAMBDA code :
        LET stock_data == m.tb[<<code, date>>]
        IN  /\ ~stock_data.empty
            /\ InOpeningRange(g.open_min_2, g.open_max_2,
                              stock_data.open, stock_data.pre_close))

GetNoLimitUpStocks2(m, date, no_limit_date, code_list) ==
    GetNoLimitUpStocks(m, date, no_limit_date, code_list)

GetRelativePositionStocks2(m, date, watch_days, code_list) ==
    SelectSeq(code_list, LAMBDA code :
        LET data == m.rel[<<code, date, watch_days>>]
        IN  /\ ~data.empty
            /\ RelRule(5, CloseAt(m, code, date), data.max_high, data.min_low))

-----------------------------------------------------------------------------
(* The two pipelines.  Each stage is given the list the stage before left. *)

\* get_all_securities('stock', date).index.tolist()
GetAllSecurities(m, date) == m.universe

\* the dates a pipeline derives: date, last_date, last_last_date
PipelineDates ==
    [date |-> PrevDay(0), last_date |-> PrevDay(1), last_last_date |-> PrevDay(2)]

Stage1(m, c) == GetLimitUpStock(m, GetAllSecurities(m, c.last_date), c.last_date)
Stage2(m, c) == FilterNewStock(m, Stage1(m, c), c.last_date)
Stage3(m, c) == FilterStStock(m, Stage2(m, c), c.last_date)
Stage4(m, c) == FilterStocksByOpeningRange(m, c.date, Stage3(m, c))
Stage5(m, c) == GetNoLimitUpStocks(m, c.last_last_date, 1, Stage4(m, c))
Stage6(m, c) == GetRelativePositionStocks(m, c.last_date, 15, Stage5(m, c))

PrepareStockList(m, c) == Stage6(m, c)

Stage1b(m, c) == GetLimitUpStock2(m, GetAllSecurities(m, c.last_date), c.last_date)
Stage2b(m, c) == FilterNewStock2(m, Stage1b(m, c), c.last_date)
Stage3b(m, c) == FilterStStock2(m, Stage2b(m, c), c.last_date)
Stage4b(m, c) == FilterStocksByOpeningRange2(m, c.date, Stage3b(m, c))
Stage5b(m, c) == GetNoLimitUpStocks2(m, c.last_last_date, 1, Stage4b(m, c))
Stage6b(m, c) == GetRelativePositionStocks2(m, c.last_date, 30, Stage5b(m, c))

PrepareStockList2(m, c) == Stage6b(m, c)

\* list(dict.fromkeys(xs)): the first occurrence of each element, in order
RECURSIVE DictFromKeys(_)
DictFromKeys(xs) ==
    IF xs = <<>> THEN <<>>
    ELSE LET front == DictFromKeys(SubSeq(xs, 1, Len(xs) - 1))
             last == xs[Len(xs)]
         IN IF Contains(front, last) THEN front ELSE Append(front, last)


\* pool 2 put in front of pool 1
DedupPoolSwapped(stock_list_with_ST, stock_list_not_ST) ==
    DictFromKeys(stock_list_not_ST \o stock_list_with_ST)

DedupPool(stock_list_with_ST, stock_list_not_ST) ==
    DictFromKeys(stock_list_with_ST \o stock_list_not_ST)

-----------------------------------------------------------------------------
(* Orders and the portfolio *)

\* order_target_value(security, value), value = num / den
Order(security, num, den) == [security |-> security, num |-> num, den |-> den]

EmptyPf == [held |-> <<>>, positions |-> EmptyFn, cash |-> <<>>,
            cur |-> EmptyFn, px |-> EmptyFn]

NoPools == [with_ST |-> <<>>, not_ST |-> <<>>, stock_list |-> <<>>]

NoJob == [func |-> "", time |-> <<>>, dates |-> <<>>]

\* the keys of context.portfolio.positions, in the dict's order
HeldLists ==
    { h \in UNION { [1..n -> Tickers] : n \in 0..NumTickers } : NoDup(h) }

AvgCosts == {960, 1000}
Amounts == {0, 100}
Positions == [closeable_amount : Amounts, avg_cost : AvgCosts]

LastPrices == {900, 1000, 1100}
Quotes == [last_price : LastPrices, high_limit : {1100}]

\* get_price(stock, end_date=yesterday, count=1, fields=[close, low, low_limit])
DF == {[kind |-> "None", close |-> 0, low |-> 0, low_limit |-> 0],
       [kind |-> "empty", close |-> 0, low |-> 0, low_limit |-> 0]}
      \cup [kind : {"row"}, close : {950, 960, 970}, low : {940, 950}, low_limit : {950}]

-----------------------------------------------------------------------------
(* buy *)

\* the cash test taken as cash >= 0
BuyOrdersAnyCash(stock_list, cash) ==
    IF cash >= 0
    THEN [i \in 1..Len(stock_list) |-> Order(stock_list[i], cash, Len(stock_list))]
    ELSE <<>>

\* lines 52-61: one order per pool ticker when there is cash
BuyOrders(stock_list, cash) ==
    IF cash > 0
    THEN [i \in 1..Len(stock_list) |-> Order(stock_list[i], cash, Len(stock_list))]
    ELSE <<>>

ListingAges == {60, 61}


\* a job that moves pool 1's lower opening bound
JobFrameTuning ==
    /\ g' = [g EXCEPT !.open_min_1 = 0]
    /\ UNCHANGED <<jobs, today, window, dayno>>

\* what the job functions leave alone: they assign no attribute of g and
\* register no job
JobFrame == UNCHANGED <<g, jobs, today, window, dayno>>

\* One call of buy.  The platform's answers are drawn as the pipelines ask
\* for them: each stage reads the data of the securities the stage before
\* left, in pool 1 and in pool 2.
BuyCall(now) ==
    \E c \in {PipelineDates} :
    \E u \in { SortedSeq(S) : S \in SUBSET Tickers } :
    \E lu1 \in [Range(u) \X {c.last_date} -> LU] :
    \E m1 \in {[EmptyMkt EXCEPT !.universe = u, !.lu = lu1]} :
    LET s1 == Range(Stage1(m1, c)) \cup Range(Stage1b(m1, c)) IN
    \E ages \in [s1 -> ListingAges] :
    \E m2 \in {[m1 EXCEPT !.start_date = [s \in s1 |-> c.last_date - ages[s]]]} :
    LET s2 == Range(Stage2(m2, c)) \cup Range(Stage2b(m2, c)) IN
    \E p2 \in [s2 \X {c.last_date} -> P2] :
    \E m3 \in {[m2 EXCEPT !.p2 = p2]} :
    LET s3 == Range(Stage3(m3, c)) \cup Range(Stage3b(m3, c)) IN
    \E tb \in [s3 \X {c.date} -> TB] :
    \E m4 \in {[m3 EXCEPT !.tb = tb]} :
    LET s4 == Range(Stage4(m4, c)) \cup Range(Stage4b(m4, c))
        cells == (s4 \X Range(NoLimitWindow(c.last_last_date, 1))) \ DOMAIN m4.lu IN
    \E lu2 \in [cells -> LU] :
    \E m5 \in {[m4 EXCEPT !.lu = lu2 @@ m4.lu]} :
    \E rel \in [(Range(Stage5(m5, c)) \X {c.last_date} \X {15})
                \cup (Range(Stage5b(m5, c)) \X {c.last_date} \X {30}) -> REL] :
    \E m \in {[m5 EXCEPT !.rel = rel]} :
    LET stock_list_with_ST == PrepareStockList(m, c)
        stock_list_not_ST == PrepareStockList2(m, c)
        stock_list == DedupPool(stock_list_with_ST, stock_list_not_ST)
    IN  /\ job' = [func |-> "buy", time |-> now, dates |-> c]
        /\ mkt' = m
        /\ pools' = [with_ST |-> stock_list_with_ST, not_ST |-> stock_list_not_ST,
                     stock_list |-> stock_list]
        /\ IF Len(stock_list) > 0
           THEN \E cash \in Cashes :
                    /\ pf' = [EmptyPf EXCEPT !.cash = <<cash>>]
                    /\ orders' = BuyOrders(stock_list, cash)
           ELSE /\ pf' = EmptyPf
                /\ orders' = <<>>
        /\ warned' = <<>>
        /\ JobFrame

-----------------------------------------------------------------------------
(* sell *)

\* context.current_dt, and the last 8 characters of its str(): 'HH:MM:SS'
\* when the microsecond is 0, and the tail of the fraction otherwise
ClockTime(h, m, s, us) == [h |-> h, m |-> m, s |-> s, us |-> us]

Last8(dt) == IF dt.us = 0 THEN <<dt.h, dt.m, dt.s>> ELSE <<-1, dt.s % 10, dt.us>>

AmRule(p, q) ==
    /\ p.closeable_amount # 0
    /\ q.last_price < q.high_limit
    /\ q.last_price > p.avg_cost


\* the afternoon exit made to ask for a profit, as the morning one does
PmRuleProfitOnly(p, q) ==
    /\ p.closeable_amount # 0
    /\ q.last_price < q.high_limit
    /\ q.last_price > p.avg_cost

PmRule(p, q) ==
    /\ p.closeable_amount # 0
    /\ q.last_price < q.high_limit

IsAm(dt) == Last8(dt) = <<11, 25, 0>>
IsPm(dt) == Last8(dt) = <<14, 30, 0>>

ZeroOrders(list) == [i \in 1..Len(list) |-> Order(list[i], 0, 1)]

SellOrders(dt, held, positions, current_data) ==
    (IF IsAm(dt)
     THEN ZeroOrders(SelectSeq(held, LAMBDA s : AmRule(positions[s], current_data[s])))
     ELSE <<>>)
    \o
    (IF IsPm(dt)
     THEN ZeroOrders(SelectSeq(held, LAMBDA s : PmRule(positions[s], current_data[s])))
     ELSE <<>>)

\* One call of sell.  The positions are read only inside the two time-of-day
\* branches.
SellCall(now) ==
    /\ job' = [func |-> "sell", time |-> now, dates |-> <<>>]
    /\ IF IsAm(now) \/ IsPm(now)
       THEN \E held \in HeldLists :
            \E positions \in [Range(held) -> Positions] :
            \E current_data \in [Range(held) -> Quotes] :
                /\ pf' = [EmptyPf EXCEPT !.held = held, !.positions = positions,
                                         !.cur = current_data]
                /\ orders' = SellOrders(now, held, positions, current_data)
       ELSE /\ pf' = EmptyPf
            /\ orders' = SellOrders(now, <<>>, EmptyFn, EmptyFn)
    /\ mkt' = EmptyMkt
    /\ pools' = NoPools
    /\ warned' = <<>>
    /\ JobFrame

-----------------------------------------------------------------------------
(* sell_if_limit_down_yesterday *)

NoData(df) == df.kind = "None" \/ df.kind = "empty"

OneWordLimitDown(df) == df.close = df.low_limit /\ df.low = df.low_limit


\* the threshold taken as strict
LossBelowThreshold(df, avg_cost) == (df.close - avg_cost) * 100 < (-4) * avg_cost

\* loss_ratio = (close - avg_cost) / avg_cost * 100 <= -4
LossAtThreshold(df, avg_cost) == (df.close - avg_cost) * 100 <= (-4) * avg_cost

\* the body of the loop for one position: the orders it places
RiskOrdersFor(stock, avg_cost, df) ==
    IF NoData(df) THEN <<>>
    ELSE IF OneWordLimitDown(df) THEN <<Order(stock, 0, 1)>>
    ELSE IF LossAtThreshold(df, avg_cost) THEN <<Order(stock, 0, 1)>>
    ELSE <<>>

RECURSIVE RiskOrders(_, _, _)
RiskOrders(held, positions, px) ==
    IF held = <<>> THEN <<>>
    ELSE RiskOrdersFor(Head(held), positions[Head(held)].avg_cost, px[Head(held)])
         \o RiskOrders(Tail(held), positions, px)

RiskWarnings(held, px) == SelectSeq(held, LAMBDA s : NoData(px[s]))

RiskCall(now) ==
    \E held \in HeldLists :
    \E positions \in [Range(held) -> [closeable_amount : {100}, avg_cost : AvgCosts]] :
    \E px \in [Range(held) -> DF] :
        /\ job' = [func |-> "sell_if_limit_down_yesterday", time |-> now,
                   dates |-> <<PrevDay(1)>>]
        /\ pf' = [EmptyPf EXCEPT !.held = held, !.positions = positions, !.px = px]
        /\ orders' = RiskOrders(held, positions, px)
        /\ warned' = RiskWarnings(held, px)
        /\ mkt' = EmptyMkt
        /\ pools' = NoPools
        /\ JobFrame

-----------------------------------------------------------------------------
(* initialize, and the platform's daily scheduler *)

\* pool 2's opening window widened to reach pool 1's
SetParamsOverlapping ==
    [open_min_1 |-> 25, open_max_1 |-> 100, open_min_2 |-> -400, open_max_2 |-> 100]

SetParams ==
    [open_min_1 |-> 25, open_max_1 |-> 100, open_min_2 |-> -400, open_max_2 |-> -300]


\* buy registered before the risk-control job
RunDailyBuyFirst ==
    << [func |-> "buy", time |-> <<9, 30>>],
       [func |-> "sell_if_limit_down_yesterday", time |-> <<9, 30>>],
       [func |-> "sell", time |-> <<11, 25>>],
       [func |-> "sell", time |-> <<14, 30>>] >>

\* the run_daily calls of initialize, in order
RunDaily ==
    << [func |-> "sell_if_limit_down_yesterday", time |-> <<9, 30>>],
       [func |-> "buy", time |-> <<9, 30>>],
       [func |-> "sell", time |-> <<11, 25>>],
       [func |-> "sell", time |-> <<14, 30>>] >>

Initialize ==
    /\ phase = "boot"
    /\ g' = SetParams
    /\ jobs' = RunDaily
    /\ today' = NextTradeDay(FirstDay)
    /\ window' = GetTradeDaysCount(NextTradeDay(FirstDay), TradeDayCount)
    /\ dayno' = 1
    /\ phase' = "idle"
    /\ UNCHANGED <<ran, job, mkt, pf, pools, orders, warned>>
    /\ UNCHANGED <<pvars, uvars>>

Earlier(a, b) == a[1] < b[1] \/ (a[1] = b[1] /\ a[2] < b[2])

Pending == { i \in 1..Len(jobs) : ~Contains(ran, i) }

\* run_daily: each trading day, the jobs run by time of day, and those
\* registered for the same time in the order of registration
NextJob ==
    CHOOSE i \in Pending : \A j \in Pending :
        \/ Earlier(jobs[i].time, jobs[j].time)
        \/ (jobs[i].time = jobs[j].time /\ i <= j)

Due(func) == phase = "idle" /\ Pending # {} /\ jobs[NextJob].func = func

DueTime == ClockTime(jobs[NextJob].time[1], jobs[NextJob].time[2], 0, 0)

Started == /\ ran' = Append(ran, NextJob)
           /\ phase' = "ran"

RunRisk == Due("sell_if_limit_down_yesterday") /\ RiskCall(DueTime) /\ Started /\ UNCHANGED <<pvars, uvars>>

RunBuy == Due("buy") /\ BuyCall(DueTime) /\ Started /\ UNCHANGED <<pvars, uvars>>

RunSell == Due("sell") /\ SellCall(DueTime) /\ Started /\ UNCHANGED <<pvars, uvars>>

\* the job returns: its locals are gone
Return ==
    /\ phase = "ran"
    /\ phase' = "idle"
    /\ job' = NoJob
    /\ mkt' = EmptyMkt
    /\ pf' = EmptyPf
    /\ pools' = NoPools
    /\ orders' = <<>>
    /\ warned' = <<>>
    /\ UNCHANGED <<g, jobs, today, window, dayno, ran>>
    /\ UNCHANGED <<pvars, uvars>>

NextDay ==
    /\ phase = "idle"
    /\ Pending = {}
    /\ dayno < MaxDays
    /\ today' = NextTradeDay(today + 1)
    /\ window' = GetTradeDaysCount(NextTradeDay(today + 1), TradeDayCount)
    /\ dayno' = dayno + 1
    /\ ran' = <<>>
    /\ UNCHANGED <<g, jobs, phase, job, mkt, pf, pools, orders, warned>>
    /\ UNCHANGED <<pvars, uvars>>


-----------------------------------------------------------------------------
(* pe_measure.py: values, series and tables *)

\* a float: NaN, an infinity, or the number n / d in lowest terms, d > 0
NaN == [k |-> "nan", n |-> 0, d |-> 1]
Inf == [k |-> "inf", n |-> 0, d |-> 1]

RECURSIVE Gcd(_, _)
Gcd(a, b) == IF b = 0 THEN a ELSE Gcd(b, a % b)

Abs(x) == IF x < 0 THEN -x ELSE x

Frac(n, d) ==
    LET q == Gcd(Abs(n), Abs(d))
        sgn == IF d < 0 THEN -1 ELSE 1
    IN [k |-> "num", n |-> sgn * (n \div q), d |-> sgn * (d \div q)]

Num(x) == Frac(x, 1)

\* a / b * 100.0 in floating point: 0 / 0 is NaN and x / 0 an infinity
DivTimes100(a, b) ==
    IF b = 0 THEN (IF a = 0 THEN NaN ELSE Inf) ELSE Frac(a * 100, b)

MinOf(S) == CHOOSE x \in S : \A y \in S : x <= y
MaxOf(S) == CHOOSE x \in S : \A y \in S : x >= y

\* a Series is a function from its dates; s.loc[idx]
Loc(series, idx) == [x \in idx |-> series[x]]

\* _to_float_clean: NaN and the infinities dropped
ToFloatClean(series) ==
    Loc(series, { x \in DOMAIN series : series[x].k = "num" })

\* the label resample(rule) gives a date: the Sunday ending its week, or the
\* last day of its month (day 1 is Monday 2018-01-01)
MonthEnds == {31, 59, 90, 120}

\* the date ranges begin on the Friday before the last week of January
RangeStart == MinOf(MonthEnds) - 5

PeriodEnd(x, rule) ==
    IF rule = "W" THEN x + ((7 - (x % 7)) % 7)
    ELSE MinOf({ e \in MonthEnds : e >= x })

\* series.resample(rule).last().dropna()
ResampleLast(series, rule) ==
    LET labels == { PeriodEnd(x, rule) : x \in DOMAIN series }
    IN [l \in labels |->
           series[MaxOf({ x \in DOMAIN series : PeriodEnd(x, rule) = l })]]

\* sort_index() of a table indexed by [date, code]: a stable sort
RowBefore(a, b) == a.date < b.date \/ (a.date = b.date /\ a.code < b.code)

RECURSIVE SortIndex(_)
SortIndex(rows) ==
    IF rows = <<>> THEN <<>>
    ELSE LET i == CHOOSE j \in 1..Len(rows) :
                      /\ \A k \in 1..Len(rows) : ~RowBefore(rows[k], rows[j])
                      /\ \A k \in 1..(j - 1) : RowBefore(rows[j], rows[k])
         IN <<rows[i]>> \o SortIndex(SubSeq(rows, 1, i - 1) \o SubSeq(rows, i + 1, Len(rows)))

\* the block fetch made to hand back an empty table
FetchValuationBlockLenient(answer) ==
    IF answer.kind = "raise" \/ answer.kind = "None" THEN [raised |-> TRUE, df |-> <<>>]
    ELSE [raised |-> FALSE, df |-> SortIndex(answer.rows)]

\* _fetch_valuation_block, given the platform's answer to
\* get_fundamentals_continuously
FetchValuationBlock(answer) ==
    IF answer.kind = "raise" THEN [raised |-> TRUE, df |-> <<>>]
    ELSE IF answer.kind = "None" \/ answer.rows = <<>> THEN [raised |-> TRUE, df |-> <<>>]
    ELSE [raised |-> FALSE, df |-> SortIndex(answer.rows)]

\* lines 159-162: the rows dated within [start_ts, end_ts]
DateFilter(df, start_ts, end_ts) ==
    SelectSeq(df, LAMBDA r : r.date >= start_ts /\ r.date <= end_ts)

\* _fetch_valuation_daily_loop: one get_fundamentals call per trading day;
\* daily[<<stock, d>>] is the platform's answer, <<>> for None or empty
FetchValuationDailyLoop(daily, stock, trade_days) ==
    LET days == SelectSeq(trade_days, LAMBDA x : daily[<<stock, x>>] # <<>>)
    IN SortIndex([i \in 1..Len(days) |-> daily[<<stock, days[i]>>][1]])

RECURSIVE Concat(_)
Concat(parts) == IF parts = <<>> THEN <<>> ELSE Head(parts) \o Concat(Tail(parts))

\* drop_duplicates(subset=['date'], keep='last')
DropDuplicatesKeepLast(rows) ==
    LET keep == { i \in 1..Len(rows) :
                    \A j \in (i + 1)..Len(rows) : rows[j].date # rows[i].date }
    IN [i \in 1..Cardinality(keep) |->
           rows[CHOOSE j \in keep : Cardinality({ k \in keep : k <= j }) = i]]

\* reindex(trade_days).ffill(), one column: the value on trade_days[i]
RECURSIVE Ffill(_, _, _, _)
Ffill(rows, col, trade_days, i) ==
    LET here == { j \in 1..Len(rows) : rows[j].date = trade_days[i] }
        v == IF here = {} THEN NaN ELSE rows[CHOOSE j \in here : TRUE][col]
    IN IF v.k # "nan" THEN v
       ELSE IF i = 1 THEN NaN
       ELSE Ffill(rows, col, trade_days, i - 1)

\* the reindexed column left unfilled
ColumnUnfilled(rows, col, trade_days) ==
    [x \in Range(trade_days) |->
        LET here == { j \in 1..Len(rows) : rows[j].date = x }
        IN IF here = {} THEN NaN ELSE rows[CHOOSE j \in here : TRUE][col]]

Column(rows, col, trade_days) ==
    [x \in Range(trade_days) |->
        Ffill(rows, col, trade_days, CHOOSE i \in 1..Len(trade_days) : trade_days[i] = x)]

\* _prep_single_stock: raises KeyError for a ticker without rows (the empty
\* frame of the except branch has no 'date' column to set as index)
PrepSingleStock(df_all, stock, trade_days, resample) ==
    LET xs == SelectSeq(df_all, LAMBDA r : r.code = stock)
        df == DropDuplicatesKeepLast(xs)
        pe0 == ToFloatClean(Column(df, "pe_ratio", trade_days))
        pb0 == ToFloatClean(Column(df, "pb_ratio", trade_days))
        idx0 == DOMAIN pe0 \cap DOMAIN pb0
        pe1 == Loc(pe0, idx0)
        pb1 == Loc(pb0, idx0)
        pe2 == ResampleLast(pe1, resample)
        pb2 == ResampleLast(pb1, resample)
        idx2 == DOMAIN pe2 \cap DOMAIN pb2
    IN IF xs = <<>> THEN [raised |-> TRUE, pe |-> EmptyFn, pb |-> EmptyFn]
       ELSE IF resample \in {"W", "M"}
            THEN [raised |-> FALSE, pe |-> Loc(pe2, idx2), pb |-> Loc(pb2, idx2)]
            ELSE [raised |-> FALSE, pe |-> pe1, pb |-> pb1]

\* _get_price_series, given the platform's answer to get_price: <<>> for None
\* or empty, else <<closes>>
GetPriceSeries(answer, resample) ==
    IF answer = <<>> THEN EmptyFn
    ELSE LET s0 == ToFloatClean(answer[1])
         IN IF resample \in {"W", "M"} THEN ResampleLast(s0, resample) ELSE s0

\* the price indexed on its last point
PricePlotOnLast(px, price_indexed) ==
    LET base == px[MaxOf(DOMAIN px)]
    IN IF price_indexed /\ base.k = "num" /\ base.n # 0
       THEN [x \in DOMAIN px |-> DivTimes100(px[x].n, base.n)]
       ELSE px

\* lines 209-216: the plotted price, indexed to 100 when the base allows
PricePlot(px, price_indexed) ==
    LET base == px[MinOf(DOMAIN px)]
    IN IF price_indexed /\ base.k = "num" /\ base.n # 0
       THEN [x \in DOMAIN px |-> DivTimes100(px[x].n, base.n)]
       ELSE px

\* lines 281-283: the exported frame
OutDf(pe, pb, px, price_indexed) ==
    [PE |-> pe, PB |-> pb, Close |-> px,
     Close_indexed_100 |->
        IF price_indexed /\ DOMAIN px # {}
        THEN <<[x \in DOMAIN px |-> DivTimes100(px[x].n, px[MinOf(DOMAIN px)].n)]>>
        ELSE <<>>]

\* s.loc[idx] raises KeyError when labels of idx are missing from s
LocRaises(series, idx) == ~(idx \subseteq DOMAIN series)

-----------------------------------------------------------------------------
(* plot_pe_pb_with_price_batch *)

Weekdays(start, end) == { x \in start..end : IsTradeDay(x) }

\* the platform's trading days of a range: its weekdays less any holidays
TradeDayAnswers(start, end) == { SortedSeq(S) : S \in SUBSET Weekdays(start, end) }

StockLists == { [i \in 1..n |-> i] : n \in 1..NumStocks }

Resamples == {"None", "W", "M"}

ValuationRow(code, x, pe_known) ==
    [date |-> x, code |-> code,
     pe_ratio |-> IF pe_known THEN Num(x) ELSE NaN, pb_ratio |-> Num(x + 100)]

\* what the platform holds for a ticker: first = 0, a row for every trading
\* day, its PE missing; first in 1..Len(days), a row for every day from
\* days[first] on; first > Len(days), no row
HasRow(days, first, x) ==
    \E j \in 1..Len(days) : days[j] = x /\ (first = 0 \/ j >= first)

FirstDays(stocks, days) == [Range(stocks) -> 0..(Len(days) + 1)]

ValuationRows(stocks, days, first) ==
    Concat([i \in 1..Len(stocks) |->
              LET held == SelectSeq(days, LAMBDA x : HasRow(days, first[stocks[i]], x))
              IN [j \in 1..Len(held) |->
                    ValuationRow(stocks[i], held[j], first[stocks[i]] # 0)]])

BlockAnswers(stocks, days) ==
    {[kind |-> "raise", rows |-> <<>>], [kind |-> "None", rows |-> <<>>]}
    \cup { [kind |-> "frame", rows |-> ValuationRows(stocks, days, f)] :
             f \in FirstDays(stocks, days) }

\* get_fundamentals(q, date=d) for each ticker and day
DailyAnswers(stocks, days, first) ==
    [c \in Range(stocks) \X Range(days) |->
        IF HasRow(days, first[c[1]], c[2])
        THEN <<ValuationRow(c[1], c[2], first[c[1]] # 0)>> ELSE <<>>]

FirstCloses == {0, 100}

\* get_price(...)['close']: NaN before the first day traded
PriceAnswers(days) ==
    {<<>>} \cup
    { << [x \in Range(days) |->
            LET j == CHOOSE k \in 1..Len(days) : days[k] = x
            IN IF j < first THEN NaN ELSE IF j = first THEN Num(base) ELSE Num(200)] >> :
        first \in 1..Len(days), base \in FirstCloses }

NoValuation == [block |-> "-", fallback |-> FALSE, daily |-> EmptyFn, df_all |-> <<>>]
NoBody == [stock |-> 0, pe |-> EmptyFn, pb |-> EmptyFn, px |-> EmptyFn,
           px_plot |-> EmptyFn, out_df |-> <<>>]
NoArgs == [stocks |-> <<>>, start_ts |-> 0, end_ts |-> 0, resample |-> "None",
           price_indexed |-> FALSE]

TickerCsv(stock) == [csv |-> "jq_pepb", stock |-> stock]
CombinedCsv == [csv |-> "pepb_combined", stock |-> 0]

\* lines 146-154
PeCall ==
    /\ pc = "start"
    /\ \E stocks \in StockLists, resample \in Resamples, price_indexed \in BOOLEAN :
          args' = [stocks |-> stocks, start_ts |-> RangeStart, end_ts |-> PeEnd,
                   resample |-> resample, price_indexed |-> price_indexed]
    /\ \E days \in TradeDayAnswers(RangeStart, PeEnd) :
          /\ tdays' = days
          /\ IF Len(days) = 0
             THEN pc' = "raised" /\ error' = "ValueError"
             ELSE pc' = "fetch" /\ error' = "-"
    /\ UNCHANGED <<valuation, body, panels, files, prep_in, prep_out>>
    /\ UNCHANGED <<svars, uvars>>

\* lines 156-169
FetchValuation ==
    /\ pc = "fetch"
    /\ \E answer \in BlockAnswers(args.stocks, tdays) :
       LET block == FetchValuationBlock(answer)
           kind == IF answer.kind = "frame" /\ answer.rows = <<>> THEN "empty"
                   ELSE answer.kind
       IN IF ~block.raised
          THEN /\ valuation' = [block |-> kind, fallback |-> FALSE, daily |-> EmptyFn,
                                df_all |-> DateFilter(block.df, args.start_ts, args.end_ts)]
               /\ pc' = "loop"
               /\ error' = "-"
          ELSE \E first \in FirstDays(args.stocks, tdays) :
               LET daily == DailyAnswers(args.stocks, tdays, first)
                   parts == [i \in 1..Len(args.stocks) |->
                               FetchValuationDailyLoop(daily, args.stocks[i], tdays)]
                   df == SortIndex(Concat(parts))
               IN /\ valuation' = [block |-> kind, fallback |-> TRUE, daily |-> daily,
                                   df_all |-> df]
                  /\ IF df = <<>>
                     THEN pc' = "raised" /\ error' = "RuntimeError"
                     ELSE pc' = "loop" /\ error' = "-"
    /\ UNCHANGED <<args, tdays, body, panels, files, prep_in, prep_out>>
    /\ UNCHANGED <<svars, uvars>>

\* lines 186-291: one iteration of the loop over the tickers (a local that
\* is computed once is bound by \E over a singleton)
PlotOne ==
    /\ pc = "loop"
    /\ Len(panels) < Len(args.stocks)
    /\ \E stock \in {args.stocks[Len(panels) + 1]} :
       \E prep \in {PrepSingleStock(valuation.df_all, stock, tdays, args.resample)} :
          IF prep.raised
          THEN /\ pc' = "raised"
               /\ error' = "KeyError"
               /\ body' = [NoBody EXCEPT !.stock = stock]
               /\ UNCHANGED <<panels, files>>
          ELSE \E answer \in PriceAnswers(tdays) :
               \E px0 \in {GetPriceSeries(answer, args.resample)} :
               LET idx0 == IF DOMAIN prep.pb # {} THEN DOMAIN prep.pe \cap DOMAIN prep.pb
                           ELSE DOMAIN prep.pe
                   idx == IF DOMAIN px0 # {} THEN idx0 \cap DOMAIN px0 ELSE idx0
               IN IF LocRaises(prep.pe, idx) \/ LocRaises(prep.pb, idx) \/ LocRaises(px0, idx)
                  THEN /\ pc' = "raised"
                       /\ error' = "KeyError"
                       /\ body' = [NoBody EXCEPT !.stock = stock, !.pe = prep.pe,
                                                 !.pb = prep.pb, !.px = px0]
                       /\ UNCHANGED <<panels, files>>
                  ELSE LET pe == Loc(prep.pe, idx)
                           pb == Loc(prep.pb, idx)
                           px == Loc(px0, idx)
                       IN IF DOMAIN px = {} \/ (DOMAIN pe = {} /\ DOMAIN pb = {})
                          THEN /\ body' = [NoBody EXCEPT !.stock = stock, !.pe = pe,
                                                         !.pb = pb, !.px = px]
                               /\ panels' = Append(panels, "No usable data")
                               /\ UNCHANGED <<pc, error, files>>
                          ELSE /\ body' = [stock |-> stock, pe |-> pe, pb |-> pb, px |-> px,
                                           px_plot |-> PricePlot(px, args.price_indexed),
                                           out_df |-> <<OutDf(pe, pb, px, args.price_indexed)>>]
                               /\ panels' = Append(panels, "chart")
                               /\ files' = files \cup {TickerCsv(stock)}
                               /\ UNCHANGED <<pc, error>>
    /\ UNCHANGED <<args, tdays, valuation, prep_in, prep_out>>
    /\ UNCHANGED <<svars, uvars>>

\* lines 293-312: the figure is finished and shown; no further file is written
Finish ==
    /\ pc = "loop"
    /\ Len(panels) = Len(args.stocks)
    /\ pc' = "done"
    /\ UNCHANGED <<args, tdays, valuation, body, panels, files, error, prep_in, prep_out>>
    /\ UNCHANGED <<svars, uvars>>


-----------------------------------------------------------------------------
(* _prep_single_stock called on its own *)

PrepCells == {"absent", "both", "pe_nan", "pb_inf"}

\* the rows of ticker 1 on day x, and one of ticker 2 on the first day
PrepRows(days, cells, dup) ==
    Concat([i \in 1..Len(days) |->
        LET x == days[i] IN
        (IF dup /\ i = 1
         THEN <<[date |-> x, code |-> 1, pe_ratio |-> Num(x + 50), pb_ratio |-> Num(x + 150)]>>
         ELSE <<>>)
        \o (IF cells[x] = "absent" THEN <<>>
            ELSE <<[date |-> x, code |-> 1,
                    pe_ratio |-> IF cells[x] = "pe_nan" THEN NaN ELSE Num(x),
                    pb_ratio |-> IF cells[x] = "pb_inf" THEN Inf ELSE Num(x + 100)]>>)
        \o (IF i = 1 THEN <<ValuationRow(2, x, TRUE)>> ELSE <<>>)])

PrepCall ==
    /\ prep_in # <<>>
    /\ prep_out = <<>>
    /\ prep_out' = <<PrepSingleStock(prep_in[1].df_all, prep_in[1].stock,
                                     prep_in[1].trade_days, prep_in[1].resample)>>
    /\ UNCHANGED <<pc, args, tdays, valuation, body, panels, files, error, prep_in>>
    /\ UNCHANGED <<svars, uvars>>


-----------------------------------------------------------------------------
(* get_no_limit_up_stocks called on its own *)

NoCall == [func |-> "-"]

NoLimitDates == {8, 10}     \* a Monday and a Wednesday

\* lines 203-207: the window is fetched and the list copied
CallGetNoLimitUpStocks ==
    /\ call = NoCall
    /\ \E code_list \in HeldLists, date \in NoLimitDates, no_limit_date \in 1..MaxNoLimitDate :
          call' = [func |-> "get_no_limit_up_stocks",
                   given |-> code_list,
                   code_list |-> code_list,
                   date |-> date,
                   no_limit_date |-> no_limit_date,
                   trading_days |-> NoLimitWindow(date, no_limit_date),
                   no_limit_up_stocks |-> code_list,
                   seen |-> EmptyFn,
                   result |-> <<>>]
    /\ UNCHANGED <<svars, pvars>>

\* lines 208-215: one iteration of the loop over the trading days; the
\* platform is asked about the codes still in the list, for that day
NoLimitUpDay ==
    /\ call.func = "get_no_limit_up_stocks"
    /\ call.result = <<>>
    /\ call.trading_days # <<>>
    /\ call.no_limit_up_stocks # <<>>
    /\ LET day == Head(call.trading_days) IN
       \E lu \in [Range(call.no_limit_up_stocks) \X {day} -> LU] :
          call' = [call EXCEPT
                     !.trading_days = Tail(call.trading_days),
                     !.no_limit_up_stocks =
                         NoLimitUpLoop([EmptyMkt EXCEPT !.lu = lu], <<day>>,
                                       call.no_limit_up_stocks),
                     !.seen = lu @@ call.seen]
    /\ UNCHANGED <<svars, pvars>>

\* line 216, reached when the days are exhausted or the list is empty
NoLimitUpReturn ==
    /\ call.func = "get_no_limit_up_stocks"
    /\ call.result = <<>>
    /\ call.trading_days = <<>> \/ call.no_limit_up_stocks = <<>>
    /\ call' = [call EXCEPT !.result = <<call.no_limit_up_stocks>>]
    /\ UNCHANGED <<svars, pvars>>

-----------------------------------------------------------------------------
(* get_previous_trade_day called on its own *)

CurrentDates == {8, 9, 10, 11, 12}      \* the days of one week

\* lines 311-316.  The platform holds the days of its calendar only: asked for
\* the last 100 up to current_date it returns fewer when fewer exist.
CallGetPreviousTradeDay ==
    /\ call = NoCall
    /\ \E current_date \in CurrentDates, held \in 0..MaxCalendar, n \in 0..MaxLookback :
       LET trade_days == GetTradeDaysCount(current_date, held)
       IN call' = [func |-> "get_previous_trade_day",
                   current_date |-> current_date,
                   trade_days |-> trade_days,
                   n |-> n,
                   result |-> GetPreviousTradeDay(trade_days, n)]
    /\ UNCHANGED <<svars, pvars>>

-----------------------------------------------------------------------------
(* The specifications *)

\* the other script is not running, and no helper is called on its own
PeIdle ==
    /\ call = NoCall
    /\ pc = "idle"
    /\ args = NoArgs
    /\ tdays = <<>>
    /\ valuation = NoValuation
    /\ body = NoBody
    /\ panels = <<>>
    /\ files = {}
    /\ error = "-"
    /\ prep_in = <<>>
    /\ prep_out = <<>>

Boot ==
    /\ g = EmptyFn
    /\ jobs = <<>>
    /\ today = 0
    /\ window = <<>>
    /\ dayno = 0
    /\ ran = <<>>
    /\ phase = "boot"
    /\ job = NoJob
    /\ mkt = EmptyMkt
    /\ pf = EmptyPf
    /\ pools = NoPools
    /\ orders = <<>>
    /\ warned = <<>>

Init == Boot /\ PeIdle

Next == Initialize \/ RunRisk \/ RunBuy \/ RunSell \/ Return \/ NextDay

vars == <<svars, pvars, uvars>>

Spec == Init /\ [][Next]_vars

-----------------------------------------------------------------------------
(* sell called on its own, at any time of day *)

CallTimes ==
    { ClockTime(9, 30, 0, 0), ClockTime(11, 25, 0, 0), ClockTime(11, 25, 0, 1),
      ClockTime(11, 25, 1, 0), ClockTime(14, 30, 0, 0), ClockTime(15, 0, 0, 0) }

InitSell ==
    /\ g = SetParams
    /\ jobs = <<>>
    /\ today = NextTradeDay(FirstDay)
    /\ window = GetTradeDaysCount(NextTradeDay(FirstDay), TradeDayCount)
    /\ dayno = 1
    /\ ran = <<>>
    /\ phase = "idle"
    /\ job = NoJob
    /\ mkt = EmptyMkt
    /\ pf = EmptyPf
    /\ pools = NoPools
    /\ orders = <<>>
    /\ warned = <<>>
    /\ PeIdle

CallSell ==
    /\ phase = "idle"
    /\ \E now \in CallTimes : SellCall(now)
    /\ phase' = "ran"
    /\ UNCHANGED ran
    /\ UNCHANGED <<pvars, uvars>>

NextSell == CallSell \/ Return

SpecSell == InitSell /\ [][NextSell]_vars

InitPE ==
    /\ Boot
    /\ call = NoCall
    /\ pc = "start"
    /\ args = NoArgs
    /\ tdays = <<>>
    /\ valuation = NoValuation
    /\ body = NoBody
    /\ panels = <<>>
    /\ files = {}
    /\ error = "-"
    /\ prep_in = <<>>
    /\ prep_out = <<>>

NextPE == PeCall \/ FetchValuation \/ PlotOne \/ Finish

SpecPE == InitPE /\ [][NextPE]_vars

InitPrep ==
    /\ Boot
    /\ call = NoCall
    /\ pc = "idle"
    /\ args = NoArgs
    /\ tdays = <<>>
    /\ valuation = NoValuation
    /\ body = NoBody
    /\ panels = <<>>
    /\ files = {}
    /\ error = "-"
    /\ \E days \in TradeDayAnswers(RangeStart, PrepEnd) \ {<<>>} :
       \E cells \in [Range(days) -> PrepCells], dup \in BOOLEAN, resample \in Resamples :
          prep_in = <<[df_all |-> PrepRows(days, cells, dup), stock |-> 1,
                       trade_days |-> days, resample |-> resample]>>
    /\ prep_out = <<>>

NextPrep == PrepCall

SpecPrep == InitPrep /\ [][NextPrep]_vars

InitNoLimit == Boot /\ PeIdle

NextNoLimit == CallGetNoLimitUpStocks \/ NoLimitUpDay \/ NoLimitUpReturn

SpecNoLimit == InitNoLimit /\ [][NextNoLimit]_vars

InitPrevDay == Boot /\ PeIdle

NextPrevDay == CallGetPreviousTradeDay

SpecPrevDay == InitPrevDay /\ [][NextPrevDay]_vars

-----------------------------------------------------------------------------
(* Properties of the trading strategy *)

JustRan(func) == phase = "ran" /\ job.func = func

IsPrefix(a, b) == Len(a) <= Len(b) /\ SubSeq(b, 1, Len(a)) = a

OrderedSet == { orders[i].security : i \in 1..Len(orders) }

OneOrderEach == \A i, j \in 1..Len(orders) :
                    orders[i].security = orders[j].security => i = j

AllToZero == \A i \in 1..Len(orders) : orders[i].num = 0

\* the six filter predicates of pool 1, on the data buy read
Pass1(s) ==
    LET c == job.dates IN
    /\ ~mkt.lu[<<s, c.last_date>>].paused
    /\ mkt.lu[<<s, c.last_date>>].close = mkt.lu[<<s, c.last_date>>].high_limit
    /\ c.last_date - mkt.start_date[s] > 60
    /\ mkt.p2[<<s, c.last_date>>].rows = "two"
    /\ StRule(mkt.lu[<<s, c.last_date>>].close, mkt.p2[<<s, c.last_date>>].close_prev,
              mkt.p2[<<s, c.last_date>>].open)
    /\ ~mkt.tb[<<s, c.date>>].empty
    /\ InOpeningRange(g.open_min_1, g.open_max_1,
                      mkt.tb[<<s, c.date>>].open, mkt.tb[<<s, c.date>>].pre_close)
    /\ ~IsLimitUp(mkt, s, c.last_last_date)
    /\ ~mkt.rel[<<s, c.last_date, 15>>].empty
    /\ RelRule(3, mkt.lu[<<s, c.last_date>>].close,
               mkt.rel[<<s, c.last_date, 15>>].max_high,
               mkt.rel[<<s, c.last_date, 15>>].min_low)

\* the six filter predicates of pool 2
Pass2(s) ==
    LET c == job.dates IN
    /\ ~mkt.lu[<<s, c.last_date>>].paused
    /\ mkt.lu[<<s, c.last_date>>].close = mkt.lu[<<s, c.last_date>>].high_limit
    /\ c.last_date - mkt.start_date[s] > 60
    /\ mkt.p2[<<s, c.last_date>>].rows = "two"
    /\ StRule2(mkt.lu[<<s, c.last_date>>].close, mkt.p2[<<s, c.last_date>>].close_prev,
               mkt.p2[<<s, c.last_date>>].open)
    /\ ~mkt.tb[<<s, c.date>>].empty
    /\ InOpeningRange(g.open_min_2, g.open_max_2,
                      mkt.tb[<<s, c.date>>].open, mkt.tb[<<s, c.date>>].pre_close)
    /\ ~IsLimitUp(mkt, s, c.last_last_date)
    /\ ~mkt.rel[<<s, c.last_date, 30>>].empty
    /\ RelRule(5, mkt.lu[<<s, c.last_date>>].close,
               mkt.rel[<<s, c.last_date, 30>>].max_high,
               mkt.rel[<<s, c.last_date, 30>>].min_low)

\* C1: prepare_stock_list and prepare_stock_list2 return exactly the
\* securities of yesterday's universe that pass all six filters of their
\* pool, in universe order; every returned security closed at its high limit
\* yesterday.
C1_PipelineIsTheSixFilters ==
    JustRan("buy") =>
        /\ pools.with_ST = SelectSeq(mkt.universe, LAMBDA s : Pass1(s))
        /\ pools.not_ST = SelectSeq(mkt.universe, LAMBDA s : Pass2(s))
        /\ \A s \in Range(pools.with_ST) \cup Range(pools.not_ST) :
               /\ ~mkt.lu[<<s, job.dates.last_date>>].paused
               /\ mkt.lu[<<s, job.dates.last_date>>].close
                      = mkt.lu[<<s, job.dates.last_date>>].high_limit

\* buy returned a pool-1 security, and dropped a security of the universe
\* that was limit-up yesterday for failing a later filter
C1_Witness ==
    /\ JustRan("buy")
    /\ pools.with_ST # <<>>
    /\ \E s \in Range(mkt.universe) :
           /\ IsLimitUp(mkt, s, job.dates.last_date)
           /\ ~Contains(pools.with_ST, s)
           /\ ~Contains(pools.not_ST, s)

\* C2: buy's candidate pool holds each security of pool 1 and pool 2 exactly
\* once: pool 1 in its order, then the pool-2 securities not already there;
\* buy issues at most one order per security.
C2_PoolOrderedDeduplicated ==
    JustRan("buy") =>
        /\ NoDup(pools.stock_list)
        /\ Range(pools.stock_list) = Range(pools.with_ST) \cup Range(pools.not_ST)
        /\ pools.stock_list
               = pools.with_ST
                 \o SelectSeq(pools.not_ST, LAMBDA s : ~Contains(pools.with_ST, s))
        /\ OneOrderEach
        /\ OrderedSet \subseteq Range(pools.stock_list)

\* buy ordered a pool made of a pool-1 and a pool-2 security
C2_Witness ==
    /\ JustRan("buy")
    /\ pools.with_ST # <<>>
    /\ pools.not_ST # <<>>
    /\ Len(orders) = 2

\* C3: sell orders by time of day only.  At 11:25:00 it orders to zero exactly
\* the positions with closeable_amount # 0, last_price < high_limit and
\* last_price > avg_cost; at 14:30:00 exactly those with closeable_amount # 0
\* and last_price < high_limit; at any other time nothing.  It never orders a
\* position at the high limit or with nothing closeable.
C3_SellByTimeOfDay ==
    JustRan("sell") =>
        LET am == job.time = [h |-> 11, m |-> 25, s |-> 0, us |-> 0]
            pm == job.time = [h |-> 14, m |-> 30, s |-> 0, us |-> 0]
        IN  /\ am => OrderedSet = { s \in Range(pf.held) :
                        /\ pf.positions[s].closeable_amount # 0
                        /\ pf.cur[s].last_price < pf.cur[s].high_limit
                        /\ pf.cur[s].last_price > pf.positions[s].avg_cost }
            /\ pm => OrderedSet = { s \in Range(pf.held) :
                        /\ pf.positions[s].closeable_amount # 0
                        /\ pf.cur[s].last_price < pf.cur[s].high_limit }
            /\ (~am /\ ~pm) => orders = <<>>
            /\ AllToZero
            /\ OneOrderEach
            /\ \A s \in OrderedSet :
                   /\ pf.cur[s].last_price # pf.cur[s].high_limit
                   /\ pf.positions[s].closeable_amount # 0

\* at 14:30:00 sell closed a losing position and left one at its high limit
C3_Witness ==
    /\ JustRan("sell")
    /\ job.time = [h |-> 14, m |-> 30, s |-> 0, us |-> 0]
    /\ \E s \in OrderedSet : pf.cur[s].last_price < pf.positions[s].avg_cost
    /\ \E s \in Range(pf.held) \ OrderedSet :
           pf.cur[s].last_price = pf.cur[s].high_limit

\* C4: after initialize the opening-range parameters keep the values
\* set_params gave them, through every job of every trading day.
C4_ParamsSetOnce ==
    phase # "boot" =>
        g = [open_min_1 |-> 25, open_max_1 |-> 100,
             open_min_2 |-> -400, open_max_2 |-> -300]

\* on the second trading day buy's pool-2 opening-range filter let a
\* security through
C4_Witness ==
    /\ JustRan("buy")
    /\ dayno = 2
    /\ pools.not_ST # <<>>

RanJobs == [i \in 1..Len(ran) |-> jobs[ran[i]]]

\* C5: every trading day the jobs run in the order sell_if_limit_down_yesterday
\* 09:30, buy 09:30, sell 11:25, sell 14:30, each once and at its registered
\* time, and the day ends only when all four have run.
C5_DailyOrder ==
    /\ [](phase # "boot" =>
            /\ IsPrefix(RanJobs,
                  << [func |-> "sell_if_limit_down_yesterday", time |-> <<9, 30>>],
                     [func |-> "buy", time |-> <<9, 30>>],
                     [func |-> "sell", time |-> <<11, 25>>],
                     [func |-> "sell", time |-> <<14, 30>>] >>)
            /\ phase = "ran" =>
                  /\ job.func = RanJobs[Len(ran)].func
                  /\ job.time = ClockTime(RanJobs[Len(ran)].time[1],
                                          RanJobs[Len(ran)].time[2], 0, 0))
    /\ [][(phase # "boot" /\ today' # today) => Len(ran) = 4]_vars

\* the second trading day's four jobs have run
C5_Witness ==
    /\ dayno = 2
    /\ Len(ran) = 4
    /\ JustRan("sell")

C12_BuyOrdersSplitCash ==
    JustRan("buy") =>
        /\ Len(pf.cash) = (IF Len(pools.stock_list) > 0 THEN 1 ELSE 0)
        /\ IF Len(pools.stock_list) > 0 /\ pf.cash[1] > 0
           THEN /\ Len(orders) = Len(pools.stock_list)
                /\ \A i \in 1..Len(orders) :
                      /\ orders[i].security = pools.stock_list[i]
                      /\ orders[i].num = pf.cash[1]
                      /\ orders[i].den = Len(pools.stock_list)
                /\ \A i \in 1..Len(orders) :
                      Len(orders) * orders[i].num = pf.cash[1] * orders[i].den
           ELSE orders = <<>>

\* buy split positive cash over a pool of two
C12_Witness ==
    /\ JustRan("buy")
    /\ Len(pools.stock_list) = 2
    /\ pf.cash = <<60000>>
    /\ Len(orders) = 2
    /\ orders[1].num = 60000 /\ orders[1].den = 2

\* yesterday's return of s passes the rule of pool 1, of pool 2
ReturnIn1(s) ==
    LET x == job.dates.last_date IN
    /\ mkt.p2[<<s, x>>].rows = "two"
    /\ StRule(mkt.lu[<<s, x>>].close, mkt.p2[<<s, x>>].close_prev, mkt.p2[<<s, x>>].open)

ReturnIn2(s) ==
    LET x == job.dates.last_date IN
    /\ mkt.p2[<<s, x>>].rows = "two"
    /\ StRule2(mkt.lu[<<s, x>>].close, mkt.p2[<<s, x>>].close_prev, mkt.p2[<<s, x>>].open)

\* today's opening gap of s lies in the window of pool 1, of pool 2
GapIn1(s) ==
    LET x == job.dates.date IN
    /\ ~mkt.tb[<<s, x>>].empty
    /\ InOpeningRange(g.open_min_1, g.open_max_1, mkt.tb[<<s, x>>].open, mkt.tb[<<s, x>>].pre_close)

GapIn2(s) ==
    LET x == job.dates.date IN
    /\ ~mkt.tb[<<s, x>>].empty
    /\ InOpeningRange(g.open_min_2, g.open_max_2, mkt.tb[<<s, x>>].open, mkt.tb[<<s, x>>].pre_close)

\* C14: pool 1 and pool 2 share no security: no security's return of
\* yesterday passes both pools' return rules, and none's opening gap lies in
\* both pools' windows; so the candidate pool is as long as the two pools
\* together.
C14_PoolsDisjoint ==
    JustRan("buy") =>
        /\ Range(pools.with_ST) \cap Range(pools.not_ST) = {}
        /\ Len(pools.stock_list) = Len(pools.with_ST) + Len(pools.not_ST)
        /\ \A c \in DOMAIN mkt.p2 : ~(ReturnIn1(c[1]) /\ ReturnIn2(c[1]))
        /\ \A c \in DOMAIN mkt.tb : ~(GapIn1(c[1]) /\ GapIn2(c[1]))

\* pool 2 holds a security, and another whose return of yesterday fits pool 1
\* opened in the window of pool 2 and is in neither pool
C14_Witness ==
    /\ JustRan("buy")
    /\ pools.not_ST # <<>>
    /\ \E c \in DOMAIN mkt.tb :
          /\ ReturnIn1(c[1])
          /\ GapIn2(c[1])
          /\ ~Contains(pools.stock_list, c[1])

-----------------------------------------------------------------------------
(* Properties of the valuation charts *)

FetchDone == pc \in {"loop", "done"} \/ error \in {"RuntimeError", "KeyError"}

\* C6: the per-day fallback is used exactly when the block fetch fails (it
\* raises, or returns None or an empty table); the run ends with RuntimeError
\* exactly when the fallback too returned nothing for every ticker and day,
\* and then no chart is drawn and no CSV written; it ends with ValueError
\* exactly when the range has no trading days, before any fetch.
C6_FallbackIffBlockFails ==
    /\ FetchDone => (valuation.fallback <=> valuation.block \in {"raise", "None", "empty"})
    /\ error = "RuntimeError" <=>
          /\ valuation.fallback
          /\ \A c \in DOMAIN valuation.daily : valuation.daily[c] = <<>>
    /\ error = "RuntimeError" => pc = "raised" /\ panels = <<>> /\ files = {}
    /\ error = "ValueError" <=> (pc # "start" /\ tdays = <<>>)
    /\ error = "ValueError" =>
          pc = "raised" /\ valuation = NoValuation /\ panels = <<>> /\ files = {}

C6_Witness ==
    /\ pc = "raised"
    /\ error = "RuntimeError"
    /\ valuation.block = "empty"
    /\ Len(tdays) > 1

\* the rows of df_all that are observations of col for the ticker on or
\* before day x: the last row of each date, unless its value is missing
PrepObs(col, x) ==
    LET a == prep_in[1] IN
    { j \in 1..Len(a.df_all) :
        /\ a.df_all[j].code = a.stock
        /\ a.df_all[j].date <= x
        /\ a.df_all[j][col].k # "nan"
        /\ \A k \in (j + 1)..Len(a.df_all) :
              ~(a.df_all[k].code = a.stock /\ a.df_all[k].date = a.df_all[j].date) }

LatestObs(col, x) ==
    LET a == prep_in[1]
        j == CHOOSE i \in PrepObs(col, x) :
                 \A k \in PrepObs(col, x) : a.df_all[k].date <= a.df_all[i].date
    IN a.df_all[j][col]

Observed(col) ==
    { x \in Range(prep_in[1].trade_days) :
        PrepObs(col, x) # {} /\ LatestObs(col, x).k = "num" }

\* C7: the PE and PB series _prep_single_stock returns share one index; with
\* no resampling that index is the trading days on which both columns have a
\* finite most recent observation, the value on each such day is that
\* observation, and no trading day before the ticker's first row is present.
C7_PrepAlignedForwardFilled ==
    (prep_out # <<>> /\ ~prep_out[1].raised) =>
        LET a == prep_in[1]
            r == prep_out[1]
        IN /\ DOMAIN r.pe = DOMAIN r.pb
           /\ a.resample = "None" =>
                /\ DOMAIN r.pe = Observed("pe_ratio") \cap Observed("pb_ratio")
                /\ \A x \in DOMAIN r.pe :
                      /\ r.pe[x] = LatestObs("pe_ratio", x)
                      /\ r.pb[x] = LatestObs("pb_ratio", x)
                /\ \A x \in Range(a.trade_days) :
                      (\A j \in 1..Len(a.df_all) :
                          a.df_all[j].code = a.stock => a.df_all[j].date > x)
                      => x \notin DOMAIN r.pe

C7_Witness ==
    /\ prep_out # <<>>
    /\ ~prep_out[1].raised
    /\ prep_in[1].resample = "None"
    /\ \E x \in DOMAIN prep_out[1].pe :
          \A j \in 1..Len(prep_in[1].df_all) :
              ~(prep_in[1].df_all[j].code = 1 /\ prep_in[1].df_all[j].date = x)
    /\ \E x \in Range(prep_in[1].trade_days) : x < MinOf(DOMAIN prep_out[1].pe)

\* the latest iteration of the loop drew a chart and exported its CSV
Charted == body.out_df # <<>>

\* C8 as stated: with price indexing on, the first value of the plotted price
\* series and of the exported Close_indexed_100 column is 100 for every
\* ticker with usable data.
C8_FirstValueIs100 ==
    (args.price_indexed /\ Charted) =>
        LET x == MinOf(DOMAIN body.px)
        IN /\ body.px_plot[x] = Num(100)
           /\ body.out_df[1].Close_indexed_100[1][x] = Num(100)

\* C8, amended: that holds whenever the first price is not zero; when it is
\* zero the plotted series is the raw price and the exported column starts
\* with NaN.
C8_FirstValueIs100UnlessZeroBase ==
    (args.price_indexed /\ Charted) =>
        LET x == MinOf(DOMAIN body.px)
        IN IF body.px[x].n # 0
           THEN /\ body.px_plot[x] = Num(100)
                /\ body.out_df[1].Close_indexed_100[1][x] = Num(100)
           ELSE /\ body.px_plot = body.px
                /\ body.out_df[1].Close_indexed_100[1][x] = NaN

C8_Witness ==
    /\ args.price_indexed
    /\ Charted
    /\ Cardinality(DOMAIN body.px) > 1
    /\ body.px[MinOf(DOMAIN body.px)] = Num(100)
    /\ body.px_plot[MaxOf(DOMAIN body.px)] = Num(200)

\* C9 as stated: a run that completes has written the CSV of every ticker
\* with usable data, and the combined CSV of those tickers.
C9_CsvsWritten ==
    pc = "done" =>
        /\ \A i \in 1..Len(panels) :
              panels[i] = "chart" => TickerCsv(args.stocks[i]) \in files
        /\ (\E i \in 1..Len(panels) : panels[i] = "chart") => CombinedCsv \in files

-----------------------------------------------------------------------------
(* Properties of the helpers *)

\* the trading days of the calendar window [date - (no_limit_date - 1), date]
WindowDays == { x \in (call.date - (call.no_limit_date - 1))..call.date : IsTradeDay(x) }

ClosedAtLimit(code) ==
    \E x \in WindowDays :
        /\ <<code, x>> \in DOMAIN call.seen
        /\ ~call.seen[<<code, x>>].paused
        /\ call.seen[<<code, x>>].close = call.seen[<<code, x>>].high_limit

\* C11: get_no_limit_up_stocks returns the codes of code_list, in order, that
\* closed at their high limit on no trading day of the window; a returned
\* code was looked up on every trading day of the window and no day outside
\* the window is looked up, with no_limit_date = 1 only the day date itself;
\* code_list is as the caller gave it.
C11_NoLimitUpInWindow ==
    (call.func = "get_no_limit_up_stocks" /\ call.result # <<>>) =>
        /\ call.result[1] = SelectSeq(call.given, LAMBDA code : ~ClosedAtLimit(code))
        /\ \A code \in Range(call.result[1]) :
               \A x \in WindowDays : <<code, x>> \in DOMAIN call.seen
        /\ \A c \in DOMAIN call.seen : c[2] \in WindowDays
        /\ call.no_limit_date = 1 => \A c \in DOMAIN call.seen : c[2] = call.date
        /\ call.code_list = call.given

\* a window of two trading days: a code removed for the first day, a later
\* code removed for the second, and an earlier code kept
C11_Witness ==
    /\ call.func = "get_no_limit_up_stocks"
    /\ call.result # <<>>
    /\ Cardinality(WindowDays) > 1
    /\ Len(call.given) > 1
    /\ Len(call.result[1]) = 1
    /\ call.result[1][1] = call.given[2]
    /\ call.given[2] < call.given[1]

\* C13 as stated: get_previous_trade_day never raises; it returns the trading
\* day n places before the latest when the calendar holds at least n + 1
\* days, and None when it holds fewer.
C13_NeverRaises ==
    call.func = "get_previous_trade_day" =>
        /\ call.result.tag # "IndexError"
        /\ Len(call.trade_days) >= call.n + 1 =>
              /\ call.result.tag = "day"
              /\ call.result.day = call.trade_days[Len(call.trade_days) - call.n]
        /\ Len(call.trade_days) < call.n + 1 => call.result.tag = "None"

====
